---- MODULE Spec2Model ----
(***************************************************************************)
(* Login flow of main.py: module-level configuration check, then main()    *)
(* tries try_login_mpin(max_retries=3) and try_login_password_totp(), each *)
(* submitting the TOTP candidate codes of totp_candidates() to             *)
(* s.generateSession.  The session capability is external: every call it   *)
(* receives is answered by a response or a raised exception chosen freely. *)
(***************************************************************************)
EXTENDS Integers, Sequences, FiniteSets, TLC

\* ------------------------------------------------------------------ bounds
\* start times of the run are EpochStride * k for k in 0..MaxEpochIdx
MaxEpochIdx == 2
EpochStride == 25
StartEpochs == { EpochStride * k : k \in 0..MaxEpochIdx }
\* clock readings tried on totp_candidates alone: GenStride * k, k in 0..MaxGenIdx
MaxGenIdx == 20
GenStride == 5
GenEpochs == { GenStride * k : k \in 0..MaxGenIdx }

\* ------------------------------------------------------- program constants
\* off by one: a fourth round of the while loop
max_retries_OffByOne == 3 + 1
max_retries == 3          \* main(): try_login_mpin(max_retries=3)
Offsets == <<-30, 0, 30>> \* totp_candidates: for offset in (-30, 0, 30)
Interval == 30            \* pyotp.TOTP time step used by .at()
Digits == 6               \* zfill(6)

\* ------------------------------------------------------------- environment
ValidSecret == "JBSWY3DPEHPK3PXP"
\* a valid secret whose first codes have leading zeros
PaddedSecret == "AAAAAAAAAAAAAAIN"
ValidSecrets == {ValidSecret, PaddedSecret}
BadSecret == "not base32!"
Secrets == {"", ValidSecret, BadSecret}

\* phrases the code looks for in messages and exception texts
RATE == "exceeding access rate"
DENIED == "access denied"
LBP == "loginbypassword is not allowed"
SWITCH == "switch to login by mpin"
\* text of the TypeError of a call made with one positional argument too many
ARITY == "positional arguments but"

\* A text is the set of phrases occurring in it, each with the letter case
\* it is written in: "lower" or "mixed" (e.g. "Access Denied").
MsgNone == {}
MsgRate == {<<RATE, "lower">>}
MsgDenied == {<<DENIED, "mixed">>}
MsgPolicy == {<<LBP, "mixed">>, <<SWITCH, "mixed">>}
MsgSwitch == {<<SWITCH, "lower">>}
MsgArity == {<<ARITY, "lower">>}

\* str.lower()
Lower(text) == { <<occ[1], "lower">> : occ \in text }
\* phrase in text   (phrase is written in lower case in the source)
Contains(text, phrase) == <<phrase, "lower">> \in text

\* Python values returned by generateSession / held in resp, resp2
None == [kind |-> "none", status |-> FALSE, message |-> MsgNone]
Dict(st, m) == [kind |-> "dict", status |-> st, message |-> m]
NonDict == [kind |-> "other", status |-> FALSE, message |-> MsgNone]
Responses ==
    { Dict(TRUE, MsgNone), Dict(TRUE, MsgPolicy),
      Dict(FALSE, MsgNone), Dict(FALSE, MsgRate), Dict(FALSE, MsgDenied),
      Dict(FALSE, MsgPolicy), Dict(FALSE, MsgSwitch), NonDict }
\* exceptions raised by generateSession, by the text of str(e)
Exc(m) == [kind |-> "exc", status |-> FALSE, message |-> m]
Exceptions == { Exc(MsgArity), Exc(MsgRate), Exc(MsgDenied) }
Pending == [kind |-> "pending", status |-> FALSE, message |-> MsgNone]

\* ------------------------------------------------------------ pure helpers
Min(a, b) == IF a <= b THEN a ELSE b

RECURSIVE Pow2(_)
Pow2(n) == IF n = 0 THEN 1 ELSE 2 * Pow2(n - 1)

\* backoff_sleep: delay = min(cap, base * (2 ** attempt))
BackoffDelay(att, base, cap) == Min(cap, base * Pow2(att))

\* decimal digits of a natural number, most significant first: str(n)
RECURSIVE Str(_)
Str(n) == IF n < 10 THEN <<n>> ELSE Append(Str(n \div 10), n % 10)

\* str.zfill(width): left-pad with zeros, never truncate
RECURSIVE Zfill(_, _)
Zfill(s, width) == IF Len(s) >= width THEN s ELSE Zfill(<<0>> \o s, width)

\* pyotp timecode: int(t / interval), truncating towards zero
Timecode(t) == IF t >= 0 THEN t \div Interval ELSE -((-t) \div Interval)

\* HOTP values of ValidSecret for counters 0..7 (RFC 4226, SHA-1, 6 digits)
HotpTable == <<282760, 996554, 602287, 143627, 960129, 768897, 883951, 449891>>
\* HOTP values of PaddedSecret for counters 0..7
PaddedTable == <<163, 25805, 418472, 582890, 524658, 231914, 353867, 275950>>
Hotp(secret, counter) ==
    LET table == IF secret = PaddedSecret THEN PaddedTable ELSE HotpTable
    IN  table[(counter % Len(table)) + 1]

\* what codes.append(None) leaves for an offset whose generation raised
Failed == <<-1>>
\* the code without left padding to 6 digits
TotpAt_NoPad(secret, t) ==
    IF secret \notin ValidSecrets \/ Timecode(t) < 0
    THEN Failed
    ELSE Str(Hotp(secret, Timecode(t)))
\* the code of any secret, without the base32 decoding that can raise
TotpAt_NoDecodeCheck(secret, t) ==
    IF Timecode(t) < 0
    THEN Failed
    ELSE Zfill(Str(Hotp(secret, Timecode(t))), Digits)
\* pyotp.TOTP(secret).at(t): the code as a digit string, or "raise" when the
\* secret does not decode as base32 or the counter is negative
TotpAt(secret, t) ==
    IF secret \notin ValidSecrets \/ Timecode(t) < 0
    THEN Failed
    ELSE Zfill(Str(Hotp(secret, Timecode(t))), Digits)

\* the loop without the "c not in seen" test
RECURSIVE Dedup_NoSeen(_, _)
Dedup_NoSeen(codes, out) ==
    IF codes = <<>> THEN out
    ELSE LET c == Head(codes)
         IN  IF c # Failed
             THEN Dedup_NoSeen(Tail(codes), Append(out, c))
             ELSE Dedup_NoSeen(Tail(codes), out)

\* "unique and preserve order" loop of totp_candidates
RECURSIVE Dedup(_, _)
Dedup(codes, out) ==
    IF codes = <<>> THEN out
    ELSE LET c == Head(codes)
         IN  IF c # Failed /\ \A i \in 1..Len(out) : out[i] # c
             THEN Dedup(Tail(codes), Append(out, c))
             ELSE Dedup(Tail(codes), out)

\* totp_candidates(secret) evaluated when the clock reads epoch
totp_candidates(lib, secret, epoch) ==
    IF ~lib \/ secret = "" THEN <<>>
    ELSE Dedup([i \in 1..Len(Offsets) |-> TotpAt(secret, epoch + Offsets[i])], <<>>)

\* resp.get("status") of a returned value
Status(r) == r.kind = "dict" /\ r.status
\* main without the status test: any dict counts as a session
MainSuccess_AnyDict(r) == r.kind = "dict"
\* main: resp and isinstance(resp, dict) and resp.get("status")
MainSuccess(r) == r.kind = "dict" /\ Status(r)

\* "exceeding access rate" in err.lower() or "access denied" in err.lower()
IsRateLimit(text) == Contains(Lower(text), RATE) \/ Contains(Lower(text), DENIED)
\* the policy test without .lower()
IsPolicy_CaseSensitive(text) == Contains(text, LBP) \/ Contains(text, SWITCH)
\* "loginbypassword is not allowed" in msg or "switch to login by mpin" in msg
IsPolicy(text) == Contains(Lower(text), LBP) \/ Contains(Lower(text), SWITCH)

\* try_login_mpin without the "if not SMARTAPI_MPIN" return
MpinGate_SecretOnly(mpin, secret) == secret # ""
\* try_login_mpin: the two early returns
MpinGate(mpin, secret) == mpin # "" /\ secret # ""
\* try_login_password_totp returning early only if both are missing
PwdGate_Or(password, secret, lib) == (password # "" \/ secret # "") /\ lib
\* try_login_password_totp: the two early returns
PwdGate(password, secret, lib) == password # "" /\ secret # "" /\ lib

\* backoff_sleep(attempt) called without base=2.0, cap=60.0
MpinExcDelay_DefaultArgs(e, att) == IF IsRateLimit(e.message) THEN BackoffDelay(att, 1, 20) ELSE 1
\* sleep after an exception in try_login_mpin
MpinExcDelay(e, att) == IF IsRateLimit(e.message) THEN BackoffDelay(att, 2, 60) ELSE 1
\* sleep after an exception in try_login_password_totp
PwdExcDelay(e) == IF IsRateLimit(e.message) THEN 5 ELSE 1
\* try_login_password_totp without "if resp.get('status'): return resp"
PwdReturns_PolicyOnly(r) == r.kind = "dict" /\ IsPolicy(r.message)
\* try_login_password_totp: does the response end the strategy?
PwdReturns(r) == r.kind = "dict" /\ (IsPolicy(r.message) \/ Status(r))

\* ------------------------------------------------------------------- state
VARIABLES
    SMARTAPI_CLIENT_CODE, SMARTAPI_MPIN, SMARTAPI_PASSWORD, SMARTAPI_TOTP_SECRET,
    pyotp,       \* TRUE iff "import pyotp" succeeded
    now,         \* time.time()
    pc,          \* position of the single thread of control
    candidates,  \* local "candidates" of the running strategy
    candEpoch,   \* "epoch" read by the totp_candidates call that made it (-1: none)
    attempt,     \* local "attempt" of try_login_mpin
    idx,         \* position of "for code in candidates" (1-based)
    resp, resp2, \* locals of main
    exitCode,    \* -1 while running, then the process exit code
    calls,       \* generateSession calls issued so far, oldest first
    answered,    \* how each (strategy, candidate position) was answered so far
    firstAns,    \* how the first call of the run was answered ("pending" until then)
    lastAns,     \* answer to the most recent call (Pending while in flight)
    prevAns,     \* answer to the call before it
    sinceCall,   \* seconds slept since the most recent call was issued
    gap,         \* seconds slept between the two most recent calls
    prevGap,     \* the gap before that one
    allRate      \* every answer so far was {status: false, message: RATE}

env == <<SMARTAPI_CLIENT_CODE, SMARTAPI_MPIN, SMARTAPI_PASSWORD, SMARTAPI_TOTP_SECRET, pyotp>>
hist == <<calls, answered, firstAns, lastAns, prevAns, gap, prevGap, allRate>>
vars == <<env, now, pc, candidates, candEpoch, attempt, idx, resp, resp2, exitCode, hist, sinceCall>>

Init ==
    /\ SMARTAPI_CLIENT_CODE \in {"", "P1"}
    /\ SMARTAPI_MPIN \in {"", "1234"}
    /\ SMARTAPI_PASSWORD \in {"", "pw"}
    /\ SMARTAPI_TOTP_SECRET \in Secrets
    /\ pyotp \in BOOLEAN
    /\ now \in StartEpochs
    /\ pc = "start"
    /\ candidates = <<>>
    /\ candEpoch = -1
    /\ attempt = 0
    /\ idx = 1
    /\ resp = None
    /\ resp2 = None
    /\ exitCode = -1
    /\ calls = <<>>
    /\ answered = {}
    /\ firstAns = "pending"
    /\ lastAns = Pending
    /\ prevAns = Pending
    /\ sinceCall = 0
    /\ gap = 0
    /\ prevGap = 0
    /\ allRate = TRUE

\* time.sleep(d)
Sleep(d) == now' = now + d /\ sinceCall' = sinceCall + d
NoSleep == UNCHANGED <<now, sinceCall>>

\* s.generateSession(SMARTAPI_CLIENT_CODE, secret, code) is sent
Issue(strategy) ==
    /\ calls' = Append(calls, [strategy |-> strategy, code |-> candidates[idx],
                               pos |-> idx, of |-> Len(candidates), round |-> attempt,
                               args |-> 3])
    /\ prevAns' = lastAns
    /\ lastAns' = Pending
    /\ prevGap' = gap
    /\ gap' = sinceCall
    /\ sinceCall' = 0
    /\ UNCHANGED <<now, answered, firstAns, allRate>>

AnswerKind(a) == IF a.kind = "exc" THEN "raised" ELSE IF Status(a) THEN "truthy" ELSE "falsy"

\* the call in flight returns or raises a
Answer(a) ==
    /\ lastAns' = a
    /\ firstAns' = IF Len(calls) = 1 THEN AnswerKind(a) ELSE firstAns
    /\ answered' = answered \cup
           {[strategy |-> calls[Len(calls)].strategy, pos |-> calls[Len(calls)].pos,
             kind |-> AnswerKind(a)]}
    /\ allRate' = (allRate /\ a = Dict(FALSE, MsgRate))
    /\ UNCHANGED <<calls, prevAns, gap, prevGap>>

\* ----------------------------------------------------------------- actions
\* module level: "if not SMARTAPI_CLIENT_CODE: sys.exit(1)", else main() starts
Start ==
    /\ pc = "start"
    /\ IF SMARTAPI_CLIENT_CODE = ""
       THEN pc' = "done" /\ exitCode' = 1
       ELSE pc' = "main" /\ exitCode' = exitCode
    /\ UNCHANGED <<env, now, candidates, candEpoch, attempt, idx, resp, resp2, hist, sinceCall>>

\* main calls try_login_mpin: early returns, else candidates and attempt = 0
MpinEnter ==
    /\ pc = "main"
    /\ IF MpinGate(SMARTAPI_MPIN, SMARTAPI_TOTP_SECRET)
       THEN /\ candidates' = totp_candidates(pyotp, SMARTAPI_TOTP_SECRET, now)
            /\ candEpoch' = now
            /\ pc' = "mpin_loop"
            /\ resp' = resp
       ELSE /\ candidates' = candidates
            /\ candEpoch' = candEpoch
            /\ resp' = None
            /\ pc' = "main_mpin_done"
    /\ attempt' = 0
    /\ idx' = 1
    /\ UNCHANGED <<env, now, resp2, exitCode, hist, sinceCall>>

\* next code of the for loop: generateSession(client, mpin, code) is called
\* ("if not code: continue" never applies: totp_candidates keeps no empty code)
MpinIssue ==
    /\ pc = "mpin_loop"
    /\ attempt < max_retries
    /\ idx <= Len(candidates)
    /\ Issue("MPIN")
    /\ pc' = "mpin_call"
    /\ UNCHANGED <<env, candidates, candEpoch, attempt, idx, resp, resp2, exitCode>>

\* the call returns: "return resp" whatever the response is
MpinReturn ==
    /\ pc = "mpin_call"
    /\ \E r \in Responses :
        /\ Answer(r)
        /\ resp' = r
    /\ pc' = "main_mpin_done"
    /\ NoSleep
    /\ UNCHANGED <<env, candidates, candEpoch, attempt, idx, resp2, exitCode>>

\* the except branch giving up: return None
MpinRaise_GivesUp ==
    /\ pc = "mpin_call"
    /\ \E e \in Exceptions :
        /\ Answer(e)
        /\ Sleep(MpinExcDelay(e, attempt))
    /\ resp' = None
    /\ pc' = "main_mpin_done"
    /\ UNCHANGED <<env, candidates, candEpoch, attempt, idx, resp2, exitCode>>

\* the call raises: sleep, then continue with the next code
MpinRaise ==
    /\ pc = "mpin_call"
    /\ \E e \in Exceptions :
        /\ Answer(e)
        /\ Sleep(MpinExcDelay(e, attempt))
    /\ idx' = idx + 1
    /\ pc' = "mpin_loop"
    /\ UNCHANGED <<env, candidates, candEpoch, attempt, resp, resp2, exitCode>>

\* the round end calling totp_candidates again
MpinRoundEnd_Regenerates ==
    /\ pc = "mpin_loop"
    /\ attempt < max_retries
    /\ idx > Len(candidates)
    /\ attempt' = attempt + 1
    /\ Sleep(BackoffDelay(attempt + 1, 1, 20))
    /\ idx' = 1
    /\ candidates' = totp_candidates(pyotp, SMARTAPI_TOTP_SECRET, now)
    /\ candEpoch' = now
    /\ UNCHANGED <<env, pc, resp, resp2, exitCode, hist>>

\* the for loop is over: attempt += 1; backoff_sleep(attempt)
MpinRoundEnd ==
    /\ pc = "mpin_loop"
    /\ attempt < max_retries
    /\ idx > Len(candidates)
    /\ attempt' = attempt + 1
    /\ Sleep(BackoffDelay(attempt + 1, 1, 20))
    /\ idx' = 1
    /\ UNCHANGED <<env, pc, candidates, candEpoch, resp, resp2, exitCode, hist>>

\* the while loop is over: return None
MpinExhausted ==
    /\ pc = "mpin_loop"
    /\ attempt >= max_retries
    /\ resp' = None
    /\ pc' = "main_mpin_done"
    /\ UNCHANGED <<env, now, candidates, candEpoch, attempt, idx, resp2, exitCode, hist, sinceCall>>

\* main testing resp2 instead of resp after try_login_mpin
MainAfterMpin_ChecksResp2 ==
    /\ pc = "main_mpin_done"
    /\ IF MainSuccess(resp2)
       THEN pc' = "done" /\ exitCode' = 0
       ELSE pc' = "main_pwd" /\ exitCode' = exitCode
    /\ UNCHANGED <<env, now, candidates, candEpoch, attempt, idx, resp, resp2, hist, sinceCall>>

\* main: if resp ... and resp.get("status"): return
MainAfterMpin ==
    /\ pc = "main_mpin_done"
    /\ IF MainSuccess(resp)
       THEN pc' = "done" /\ exitCode' = 0
       ELSE pc' = "main_pwd" /\ exitCode' = exitCode
    /\ UNCHANGED <<env, now, candidates, candEpoch, attempt, idx, resp, resp2, hist, sinceCall>>

\* main calls try_login_password_totp: early returns, else candidates
PwdEnter ==
    /\ pc = "main_pwd"
    /\ IF PwdGate(SMARTAPI_PASSWORD, SMARTAPI_TOTP_SECRET, pyotp)
       THEN /\ candidates' = totp_candidates(pyotp, SMARTAPI_TOTP_SECRET, now)
            /\ candEpoch' = now
            /\ pc' = "pwd_loop"
            /\ resp2' = resp2
       ELSE /\ candidates' = candidates
            /\ candEpoch' = candEpoch
            /\ resp2' = None
            /\ pc' = "main_pwd_done"
    /\ idx' = 1
    /\ UNCHANGED <<env, now, attempt, resp, exitCode, hist, sinceCall>>

\* next code of the for loop: generateSession(client, password, code) is called
PwdIssue ==
    /\ pc = "pwd_loop"
    /\ idx <= Len(candidates)
    /\ Issue("PASSWORD_TOTP")
    /\ pc' = "pwd_call"
    /\ UNCHANGED <<env, candidates, candEpoch, attempt, idx, resp, resp2, exitCode>>

\* the call returns: policy message or truthy status returns resp, otherwise
\* sleep 1.0 and continue
PwdReturn ==
    /\ pc = "pwd_call"
    /\ \E r \in Responses :
        /\ Answer(r)
        /\ IF PwdReturns(r)
           THEN /\ resp2' = r
                /\ pc' = "main_pwd_done"
                /\ idx' = idx
                /\ NoSleep
           ELSE /\ resp2' = resp2
                /\ pc' = "pwd_loop"
                /\ idx' = idx + 1
                /\ Sleep(1)
    /\ UNCHANGED <<env, candidates, candEpoch, attempt, resp, exitCode>>

\* the call raises: sleep 5.0 or 1.0, then continue
PwdRaise ==
    /\ pc = "pwd_call"
    /\ \E e \in Exceptions :
        /\ Answer(e)
        /\ Sleep(PwdExcDelay(e))
    /\ idx' = idx + 1
    /\ pc' = "pwd_loop"
    /\ UNCHANGED <<env, candidates, candEpoch, attempt, resp, resp2, exitCode>>

\* the for loop is over: return None
PwdExhausted ==
    /\ pc = "pwd_loop"
    /\ idx > Len(candidates)
    /\ resp2' = None
    /\ pc' = "main_pwd_done"
    /\ UNCHANGED <<env, now, candidates, candEpoch, attempt, idx, resp, exitCode, hist, sinceCall>>

\* main: if resp2 ... and resp2.get("status"): return; else sys.exit(1)
MainAfterPwd ==
    /\ pc = "main_pwd_done"
    /\ pc' = "done"
    /\ exitCode' = IF MainSuccess(resp2) THEN 0 ELSE 1
    /\ UNCHANGED <<env, now, candidates, candEpoch, attempt, idx, resp, resp2, hist, sinceCall>>

Next ==
    \/ Start
    \/ MpinEnter
    \/ MpinIssue
    \/ MpinReturn
    \/ MpinRaise
    \/ MpinRoundEnd
    \/ MpinExhausted
    \/ MainAfterMpin
    \/ PwdEnter
    \/ PwdIssue
    \/ PwdReturn
    \/ PwdRaise
    \/ PwdExhausted
    \/ MainAfterPwd

Spec == Init /\ [][Next]_vars

\* the thread of control always takes its next step, and every call in flight
\* returns or raises
FairSpec == Spec /\ WF_vars(Next)

\* totp_candidates on its own: any secret, any clock reading
GenInit ==
    /\ SMARTAPI_CLIENT_CODE = "P1"
    /\ SMARTAPI_MPIN = "1234"
    /\ SMARTAPI_PASSWORD = "pw"
    /\ SMARTAPI_TOTP_SECRET \in Secrets \cup ValidSecrets
    /\ pyotp \in BOOLEAN
    /\ now \in GenEpochs
    /\ pc = "gen"
    /\ candidates = <<>>
    /\ candEpoch = -1
    /\ attempt = 0
    /\ idx = 1
    /\ resp = None
    /\ resp2 = None
    /\ exitCode = -1
    /\ calls = <<>>
    /\ answered = {}
    /\ firstAns = "pending"
    /\ lastAns = Pending
    /\ prevAns = Pending
    /\ sinceCall = 0
    /\ gap = 0
    /\ prevGap = 0
    /\ allRate = TRUE

\* candidates = totp_candidates(SMARTAPI_TOTP_SECRET)
Generate ==
    /\ pc = "gen"
    /\ candidates' = totp_candidates(pyotp, SMARTAPI_TOTP_SECRET, now)
    /\ candEpoch' = now
    /\ pc' = "generated"
    /\ UNCHANGED <<env, now, attempt, idx, resp, resp2, exitCode, hist, sinceCall>>

GenNext == Generate

GenSpec == GenInit /\ [][GenNext]_vars

TypeOK ==
    /\ pc \in {"gen", "generated", "start", "main", "mpin_loop", "mpin_call", "main_mpin_done",
               "main_pwd", "pwd_loop", "pwd_call", "main_pwd_done", "done"}
    /\ exitCode \in {-1, 0, 1}
    /\ attempt \in 0..max_retries
    /\ Len(candidates) <= Len(Offsets)
\* ------------------------------------------------------- history predicates
MpinCalls == { i \in DOMAIN calls : calls[i].strategy = "MPIN" }
PwdCalls == { i \in DOMAIN calls : calls[i].strategy = "PASSWORD_TOTP" }
SomeTruthy == \E a \in answered : a.kind = "truthy"
Answered(strategy, pos, kind) == [strategy |-> strategy, pos |-> pos, kind |-> kind] \in answered
LastCall == calls[Len(calls)]
\* the text names a phrase, whatever its letter case
Mentions(text, phrase) == \E occ \in text : occ[1] = phrase

\* ------------------------------------------------------------------ claims
\* C1: once a generateSession call has returned a response with a truthy
\* status, no further call is issued and the run ends with exit code 0
\* (main returns normally).
C1_SuccessShortCircuit ==
    /\ [][SomeTruthy => calls' = calls]_vars
    /\ [](pc = "done" /\ SomeTruthy => exitCode = 0)
C1_Witness ==
    /\ pc = "done" /\ exitCode = 0
    /\ Len(calls) >= 2 /\ LastCall.strategy = "PASSWORD_TOTP"
    /\ Status(lastAns) /\ LastCall.pos < LastCall.of

\* C2: with mpin, password and totpSecret configured and at least two
\* candidates, a capability that answers the first MPIN candidate with a
\* non-success (status-false response or exception) and the second MPIN
\* candidate with status true makes the run issue exactly two calls, MPIN
\* candidate 1 then MPIN candidate 2, and end in SUCCESS.  A finished run
\* refutes it when its answers are those of such a capability (candidate 1
\* never answered with success, candidate 2 never answered with anything
\* but success) and its calls are not these two.
C2_SecondMpinCandidate ==
    ( /\ pc = "done"
      /\ SMARTAPI_MPIN # "" /\ SMARTAPI_PASSWORD # "" /\ SMARTAPI_TOTP_SECRET # ""
      /\ Len(calls) >= 1 /\ calls[1].strategy = "MPIN" /\ calls[1].of >= 2
      /\ ~Answered("MPIN", 1, "truthy")
      /\ ~Answered("MPIN", 2, "falsy") /\ ~Answered("MPIN", 2, "raised") )
    => ( /\ Len(calls) = 2
         /\ calls[1].strategy = "MPIN" /\ calls[1].pos = 1
         /\ calls[2].strategy = "MPIN" /\ calls[2].pos = 2
         /\ exitCode = 0 )

\* C3: when every call returns {status: false, message: "exceeding access
\* rate"}, each delay between successive calls is larger than the previous
\* one, until the cap is reached.
BackoffCap == 20
C3_RateLimitedDelaysIncrease ==
    (allRate /\ Len(calls) >= 3) => (gap > prevGap \/ prevGap >= BackoffCap)

\* C4: a password+TOTP response whose message contains (case-insensitively)
\* "loginbypassword is not allowed" or "switch to login by mpin" is returned
\* by try_login_password_totp as it is, and no further call is issued.
PolicyAnswered ==
    /\ Len(calls) > 0 /\ LastCall.strategy = "PASSWORD_TOTP"
    /\ lastAns.kind = "dict"
    /\ (Mentions(lastAns.message, LBP) \/ Mentions(lastAns.message, SWITCH))
C4_PolicyRejectionTerminal ==
    /\ [](PolicyAnswered => resp2 = lastAns /\ pc \in {"main_pwd_done", "done"})
    /\ [][PolicyAnswered => calls' = calls]_vars
C4_Witness ==
    /\ pc = "done" /\ PolicyAnswered /\ lastAns = Dict(FALSE, MsgPolicy)
    /\ LastCall.pos = 1 /\ LastCall.of >= 2 /\ Cardinality(PwdCalls) = 1

\* C5: if the mpin or the TOTP secret is not configured, no call is ever
\* issued under the MPIN strategy.
C5_MpinGating ==
    (SMARTAPI_MPIN = "" \/ SMARTAPI_TOTP_SECRET = "") => MpinCalls = {}
C5_Witness ==
    /\ pc = "done" /\ SMARTAPI_MPIN = "" /\ SMARTAPI_TOTP_SECRET # ""
    /\ Len(calls) > 0 /\ MpinCalls = {}
\* C6 as stated: with clientCode, mpin and a valid totpSecret configured, a
\* capability that succeeds on the first call it receives makes the run
\* issue exactly one call, MPIN with the first candidate, and end in SUCCESS.
C6_FirstCallSuccess_AsStated ==
    ( /\ pc = "done"
      /\ SMARTAPI_CLIENT_CODE # "" /\ SMARTAPI_MPIN # ""
      /\ SMARTAPI_TOTP_SECRET = ValidSecret
      /\ (Len(calls) >= 1 => firstAns = "truthy") )
    => ( /\ Len(calls) = 1
         /\ calls[1].strategy = "MPIN" /\ calls[1].pos = 1
         /\ exitCode = 0 )
\* C6 amended: the same, provided the pyotp library could be imported.
C6_FirstCallSuccess ==
    ( /\ pc = "done"
      /\ SMARTAPI_CLIENT_CODE # "" /\ SMARTAPI_MPIN # ""
      /\ SMARTAPI_TOTP_SECRET = ValidSecret /\ pyotp
      /\ (Len(calls) >= 1 => firstAns = "truthy") )
    => ( /\ Len(calls) = 1
         /\ calls[1].strategy = "MPIN" /\ calls[1].pos = 1
         /\ exitCode = 0 )
C6_Witness ==
    /\ pc = "done" /\ exitCode = 0
    /\ SMARTAPI_MPIN # "" /\ SMARTAPI_PASSWORD = "" /\ SMARTAPI_TOTP_SECRET = ValidSecret
    /\ Len(calls) = 1 /\ calls[1].strategy = "MPIN" /\ calls[1].pos = 1
    /\ calls[1].of = 3 /\ firstAns = "truthy"

\* C7: the exit code is 0 only if some call returned a truthy status; a run
\* that ends without client code, or with no truthy status returned, ends
\* with a non-zero exit code.
C7_ExitContract ==
    /\ exitCode = 0 => SomeTruthy
    /\ (pc = "done" /\ (SMARTAPI_CLIENT_CODE = "" \/ ~SomeTruthy)) => exitCode = 1
C7_Witness ==
    /\ pc = "done" /\ exitCode = 1
    /\ MpinCalls # {} /\ PwdCalls # {} /\ ~SomeTruthy

\* C8: without client code, or with neither (mpin and totpSecret) nor
\* (password and totpSecret) configured, no generateSession call is issued
\* and the run ends with a non-zero exit code.
ConfigurationError ==
    \/ SMARTAPI_CLIENT_CODE = ""
    \/ /\ ~(SMARTAPI_MPIN # "" /\ SMARTAPI_TOTP_SECRET # "")
       /\ ~(SMARTAPI_PASSWORD # "" /\ SMARTAPI_TOTP_SECRET # "")
C8_ConfigurationErrorFatal ==
    ConfigurationError => (calls = <<>> /\ exitCode # 0 /\ (pc = "done" => exitCode = 1))
C8_Witness ==
    /\ pc = "done" /\ exitCode = 1 /\ calls = <<>>
    /\ SMARTAPI_CLIENT_CODE # "" /\ SMARTAPI_MPIN # "" /\ SMARTAPI_PASSWORD # ""
    /\ SMARTAPI_TOTP_SECRET = ""

\* C9: every run ends (SUCCESS or FAILED), having issued at most
\* max_retries x |candidates| <= 3 x 3 MPIN calls and at most
\* |candidates| <= 3 password+TOTP calls, whatever the capability answers.
DefaultRetries == 3
MaxCandidates == 3
C9_CallBounds ==
    /\ \A i \in MpinCalls : Cardinality(MpinCalls) <= DefaultRetries * calls[i].of
    /\ \A i \in PwdCalls : Cardinality(PwdCalls) <= calls[i].of
    /\ Cardinality(MpinCalls) <= DefaultRetries * MaxCandidates
    /\ Cardinality(PwdCalls) <= MaxCandidates
C9_BoundedRetryTermination ==
    /\ <>(pc = "done" /\ exitCode \in {0, 1})
    /\ []C9_CallBounds
C9_Witness ==
    /\ pc = "done" /\ exitCode = 1
    /\ Cardinality(MpinCalls) = DefaultRetries * MaxCandidates
    /\ Cardinality(PwdCalls) = MaxCandidates

\* C10: in either strategy, after a status-false response that is neither
\* rate-limit nor policy rejection, while another candidate of the strategy
\* is untried, the next call is made with the next candidate of the same
\* strategy, after no more than the baseline pause.
BaselinePause == 1
OrdinaryRejection(a) ==
    /\ a.kind = "dict" /\ ~a.status
    /\ \A phrase \in {RATE, DENIED, LBP, SWITCH} : ~Mentions(a.message, phrase)
C10_OrdinaryRejectionNextCandidate ==
    /\ ( /\ Len(calls) >= 2
         /\ OrdinaryRejection(prevAns)
         /\ calls[Len(calls) - 1].pos < calls[Len(calls) - 1].of )
       => ( /\ LastCall.strategy = calls[Len(calls) - 1].strategy
            /\ LastCall.pos = calls[Len(calls) - 1].pos + 1
            /\ gap <= BaselinePause )
    /\ ( /\ Len(calls) >= 1
         /\ OrdinaryRejection(lastAns)
         /\ LastCall.pos < LastCall.of )
       => pc # "done"
\* C11: in a run that ends FAILED, the final report of main (resp and resp2)
\* contains the response or exception of every failed attempt.  Stated for
\* the two most recent attempts, and for every raised exception by its kind.
C11_NothingSwallowed ==
    (pc = "done" /\ exitCode = 1) =>
        /\ Len(calls) >= 1 => lastAns \in {resp, resp2}
        /\ Len(calls) >= 2 => prevAns \in {resp, resp2}
        /\ \A a \in answered :
              a.kind = "raised" => (resp.kind = "exc" \/ resp2.kind = "exc")

\* C12: when a three-argument call is rejected with an argument-count
\* mismatch, the same attempt is repeated with the two-argument call shape;
\* the three-argument shape is always tried first.
ArityMismatch(a) == a.kind = "exc" /\ Mentions(a.message, ARITY)
C12_CallShapeFallback ==
    /\ Len(calls) >= 1 => calls[1].args = 3
    /\ ( /\ Len(calls) >= 2
         /\ ArityMismatch(prevAns)
         /\ calls[Len(calls) - 1].args = 3 )
       => ( /\ LastCall.args = 2
            /\ LastCall.strategy = calls[Len(calls) - 1].strategy
            /\ LastCall.code = calls[Len(calls) - 1].code )
    /\ ( /\ Len(calls) >= 1
         /\ ArityMismatch(lastAns)
         /\ LastCall.args = 3 )
       => pc \notin {"main_mpin_done", "main_pwd", "main_pwd_done", "done"}

\* C13: a run reaches FAILED only after the MPIN strategy (when mpin and
\* totpSecret are configured) has submitted every candidate in each of its
\* max_retries rounds, and the password+TOTP strategy (when password and
\* totpSecret are configured) has submitted every candidate or was stopped
\* by a policy rejection.
MpinTried(round, pos) ==
    \E i \in MpinCalls : calls[i].round = round /\ calls[i].pos = pos
PwdTried(pos) == \E i \in PwdCalls : calls[i].pos = pos
C13_FailedOnlyAfterExhaustion ==
    (pc = "done" /\ exitCode = 1 /\ SMARTAPI_CLIENT_CODE # "") =>
        /\ \A i \in MpinCalls :
              \A round \in 0..(DefaultRetries - 1) : \A pos \in 1..calls[i].of :
                  MpinTried(round, pos)
        /\ \A i \in PwdCalls :
              \/ \A pos \in 1..calls[i].of : PwdTried(pos)
              \/ PolicyAnswered
\* C14: totp_candidates returns exactly the codes generated for the offsets
\* -30, 0, +30, without the offsets that failed, each code once, in the order
\* of first occurrence; at most 3 codes; for a valid secret the result is not
\* empty and every code is a string of 6 digits.
Generated(i) == TotpAt(SMARTAPI_TOTP_SECRET, candEpoch + Offsets[i])
FirstOffset(c) ==
    CHOOSE i \in 1..Len(Offsets) :
        Generated(i) = c /\ \A j \in 1..(i - 1) : Generated(j) # c
SixDigits(c) == Len(c) = 6 /\ \A k \in 1..Len(c) : c[k] \in 0..9
CandidatesAsClaimed ==
    /\ \A i \in 1..Len(Offsets) :
          Generated(i) # Failed => \E k \in 1..Len(candidates) : candidates[k] = Generated(i)
    /\ \A k \in 1..Len(candidates) :
          \E i \in 1..Len(Offsets) : Generated(i) # Failed /\ candidates[k] = Generated(i)
    /\ \A k1, k2 \in 1..Len(candidates) :
          k1 < k2 => /\ candidates[k1] # candidates[k2]
                     /\ FirstOffset(candidates[k1]) < FirstOffset(candidates[k2])
    /\ Len(candidates) <= 3
    /\ SMARTAPI_TOTP_SECRET \in ValidSecrets =>
          (Len(candidates) >= 1 /\ \A k \in 1..Len(candidates) : SixDigits(candidates[k]))
C14_CandidateGenerator_AsStated ==
    candEpoch >= 0 => CandidatesAsClaimed
\* C14 amended: the same, provided the pyotp library could be imported.
C14_CandidateGenerator ==
    (candEpoch >= 0 /\ pyotp) => CandidatesAsClaimed
C14_Witness ==
    /\ pc = "generated" /\ pyotp /\ SMARTAPI_TOTP_SECRET = PaddedSecret
    /\ Generated(1) = Generated(2)
    /\ candidates = << <<0, 0, 0, 1, 6, 3>>, <<0, 2, 5, 8, 0, 5>> >>
\* C15: a password+TOTP call is issued only if both password and totpSecret
\* are configured, and no candidate code is submitted twice under this
\* strategy.
C15_PasswordGatingSinglePass ==
    /\ PwdCalls # {} => (SMARTAPI_PASSWORD # "" /\ SMARTAPI_TOTP_SECRET # "")
    /\ \A i, j \in PwdCalls : i # j => calls[i].code # calls[j].code
C15_Witness ==
    /\ pc = "done" /\ Cardinality(PwdCalls) = 3 /\ MpinCalls = {}
    /\ lastAns.kind = "exc" /\ prevAns = Dict(FALSE, MsgRate)

\* C16: every MPIN call precedes every password+TOTP call; after a
\* password+TOTP call no MPIN call is issued; the password+TOTP strategy is
\* entered only after the MPIN strategy ended without a truthy status.
MpinTruthy == \E a \in answered : a.strategy = "MPIN" /\ a.kind = "truthy"
C16_StrategyOrder ==
    /\ [](\A i \in MpinCalls : \A j \in PwdCalls : i < j)
    /\ [][PwdCalls # {} => MpinCalls' = MpinCalls]_vars
    /\ [](pc \in {"main_pwd", "pwd_loop", "pwd_call", "main_pwd_done"} => ~MpinTruthy)
    /\ [](PwdCalls # {} => ~MpinTruthy)
C16_Witness ==
    /\ pc = "pwd_call" /\ Cardinality(MpinCalls) = 9 /\ Cardinality(PwdCalls) = 2

\* C17: in try_login_mpin an exception whose text contains (in any letter
\* case) "exceeding access rate" or "access denied" is followed by a sleep of
\* min(60, 2 * 2^a) seconds, a the round index; any other exception by a
\* sleep of 1 second; then the next candidate of the round is tried.
ClaimedMpinDelay(a, round) ==
    IF Mentions(a.message, RATE) \/ Mentions(a.message, DENIED)
    THEN (IF 2 * Pow2(round) < 60 THEN 2 * Pow2(round) ELSE 60)
    ELSE 1
C17_MpinExceptionBackoff ==
    /\ [][(pc = "mpin_call" /\ pc' = "mpin_loop") =>
            /\ lastAns'.kind = "exc"
            /\ now' - now = ClaimedMpinDelay(lastAns', attempt)
            /\ attempt' = attempt /\ idx' = idx + 1]_vars
    /\ []( ( /\ Len(calls) >= 2
             /\ calls[Len(calls) - 1].strategy = "MPIN"
             /\ prevAns.kind = "exc"
             /\ calls[Len(calls) - 1].pos < calls[Len(calls) - 1].of )
           => ( /\ LastCall.strategy = "MPIN"
                /\ LastCall.round = calls[Len(calls) - 1].round
                /\ LastCall.pos = calls[Len(calls) - 1].pos + 1
                /\ gap = ClaimedMpinDelay(prevAns, LastCall.round) ) )
C17_Witness ==
    /\ pc = "mpin_call" /\ LastCall.round = 2 /\ LastCall.pos = 2
    /\ prevAns = Exc(MsgDenied) /\ gap = 8

\* C18: if every MPIN call raises, the MPIN strategy issues exactly
\* max_retries x |candidates| calls, every candidate once per round in
\* candidate order, returns no response, and main goes on to the
\* password+TOTP strategy.
AllMpinRaised == \A a \in answered : a.strategy = "MPIN" => a.kind = "raised"
MpinOver ==
    /\ SMARTAPI_CLIENT_CODE # ""
    /\ pc \in {"main_mpin_done", "main_pwd", "pwd_loop", "pwd_call", "main_pwd_done", "done"}
C18_MpinExhaustion ==
    /\ []( (MpinOver /\ AllMpinRaised) =>
             /\ resp = None
             /\ \A i \in MpinCalls :
                   /\ Cardinality(MpinCalls) = DefaultRetries * calls[i].of
                   /\ i <= Cardinality(MpinCalls)
                   /\ calls[i].round = (i - 1) \div calls[i].of
                   /\ calls[i].pos = ((i - 1) % calls[i].of) + 1
                   /\ calls[i].code = calls[calls[i].pos].code )
    /\ [][(pc = "main_mpin_done" /\ AllMpinRaised) => pc' = "main_pwd"]_vars
C18_Witness ==
    /\ pc = "main_pwd" /\ AllMpinRaised /\ resp = None
    /\ Cardinality(MpinCalls) = 9

\* C19: each strategy computes its candidate list once, before its first
\* call, and never again: every round of try_login_mpin submits the codes of
\* round 0 in the same order, however much time has passed.
C19_CandidatesFixed ==
    /\ [](\A i, j \in DOMAIN calls :
             (calls[i].strategy = calls[j].strategy /\ calls[i].pos = calls[j].pos)
             => (calls[i].code = calls[j].code /\ calls[i].of = calls[j].of))
    /\ [][( \/ {pc, pc'} \subseteq {"mpin_loop", "mpin_call"}
            \/ {pc, pc'} \subseteq {"pwd_loop", "pwd_call"} )
          => (candidates' = candidates /\ candEpoch' = candEpoch)]_vars
C19_Witness ==
    /\ pc = "mpin_call" /\ LastCall.round = 2 /\ LastCall.of = 3
    /\ Timecode(now) # Timecode(candEpoch)
    /\ LastCall.code = calls[LastCall.pos].code

\* C20: with a TOTP secret for which code generation fails at every offset,
\* no call is issued under either strategy, whatever mpin and password are,
\* and the run ends FAILED with a non-zero exit code.
C20_MalformedSecret ==
    /\ [](SMARTAPI_TOTP_SECRET = BadSecret =>
            /\ calls = <<>>
            /\ candidates = <<>>
            /\ exitCode # 0)
    /\ (SMARTAPI_TOTP_SECRET = BadSecret => <>(pc = "done" /\ exitCode = 1))
C20_Witness ==
    /\ pc = "done" /\ exitCode = 1 /\ calls = <<>>
    /\ SMARTAPI_TOTP_SECRET = BadSecret /\ pyotp
    /\ SMARTAPI_MPIN # "" /\ SMARTAPI_PASSWORD # ""
    /\ attempt = 3 /\ candEpoch >= 0
====
